---- MODULE Spec2Model ----
(***************************************************************************)
(* A model of ore_algebra.analytic.singularity_analysis: the truncation    *)
(* of ball polynomials (truncate_tail), the case analysis and recursion of *)
(* bound_coeff_mono, and the control flow of contribution_all_singularity  *)
(* (selection of the dominant singularities, choice of the big radius,     *)
(* per-singularity analyses, aggregation and the threshold N0).            *)
(*                                                                         *)
(* Numbers.  A ball is a centre and a radius.  The model keeps real balls  *)
(* with rational centre and radius, written as integers over the           *)
(* denominator min_n^pn * log(min_n)^pl; Arb's outward rounding is left    *)
(* out (a ball of the model is never larger than Arb's).  Points of the    *)
(* complex plane are taken on the real axis, at integer coordinates, so    *)
(* that moduli and distances are integers; radii are kept in tenths.       *)
(* Exponents (leftmost, alpha) are kept in halves: alpha2 = 2*alpha.       *)
(***************************************************************************)
EXTENDS Integers, Naturals, Sequences, FiniteSets, TLC

VARIABLES
    tt,      \* the call of truncate_tail being run: arguments, result, pc
    stack,   \* the call stack of bound_coeff_mono (a sequence of frames)
    ret,     \* the outcome of the bound_coeff_mono call that ended last
    top,     \* the arguments of the outermost bound_coeff_mono call
    cas,     \* the run of contribution_all_singularity: arguments, locals, pc
    asy,     \* the call of bound_coefficients: arguments, result, pc
    sr,      \* the common re-truncation of one bound by truncate_tail_SR
    circ,    \* the call of numerical_sol_big_circle: arguments, arcs, pc
    cls      \* the call of process_modZ_class: arguments, s, pc, result

vars == <<tt, stack, ret, top, cas, asy, sr, circ, cls>>

None == "None"

Abs(x) == IF x < 0 THEN -x ELSE x
Max2(a, b) == IF a >= b THEN a ELSE b
Min2(a, b) == IF a <= b THEN a ELSE b

RECURSIVE Pow(_, _)
Pow(b, e) == IF e <= 0 THEN 1 ELSE b * Pow(b, e - 1)

(***************************************************************************)
(* truncate_tail                                                           *)
(***************************************************************************)

\* Bounds of the inputs of truncate_tail.
MaxDegW == 2        \* largest degree in w = 1/n of a monomial of f
MaxEvalN == 4       \* largest n at which f and g are evaluated

DegLogs == {0, 1}           \* degrees in logn of the monomials of f
DegOthers == {0, 1}         \* degrees in the other variables (u, v, logz)
MinNs == {1, 2, 3}          \* values of min_n
KappaNone == -1             \* stands for kappa = None (the default)
Kappas == {KappaNone, 0, 1} \* kappa: None, or the target degree in logn
MaxKappa == CHOOSE k \in Kappas : \A j \in Kappas : j <= k
LogMins == {1, 2}           \* values standing for log(min_n), min_n >= e
LogVals == {1, 2, 3}        \* values standing for log(n)
OtherVals == {-1, 2}        \* values given to the other variables

\* The input coefficients: exact, inexact, and zero-centred balls.
Ball(mid, rad) == [mid |-> mid, rad |-> rad, pn |-> 0, pl |-> 0]
ZeroBall == Ball(0, 0)
Coeffs == {Ball(1, 0), Ball(-2, 1), Ball(0, 1)}

Monos == [w : 0..MaxDegW, logn : DegLogs, other : DegOthers]

\* The monomials of a polynomial: those whose coefficient is not zero.
Support(p) == {m \in DOMAIN p : p[m] # ZeroBall}

\* c.above_abs(): an upper bound of |x| for x in the ball c.
AboveAbs(c) == Abs(c.mid) + c.rad

\* c if c.mid() == 0 else CB(0).add_error(c.above_abs())
ZeroCentredKeepsRadius(c) == IF c.mid = 0 THEN c ELSE [c EXCEPT !.mid = 0]
ZeroCentred(c) ==
    IF c.mid = 0 THEN c ELSE [c EXCEPT !.mid = 0, !.rad = AboveAbs(c)]

\* ... / CB(min_n**(deg_w - deg))
DivPowMinN(c, k) == [c EXCEPT !.pn = @ + k]

\* ... * CB(min_n).log().pow(deg_logn - kappa), for deg_logn <= kappa
MulPowLogMin(c, k) == [c EXCEPT !.pl = @ - k]

\* a + b, both written over the larger of the two denominators.
BallAdd(a, b, min_n, logmin) ==
    LET pn == Max2(a.pn, b.pn)
        pl == Max2(a.pl, b.pl)
        sa == Pow(min_n, pn - a.pn) * Pow(logmin, pl - a.pl)
        sb == Pow(min_n, pn - b.pn) * Pow(logmin, pl - b.pl)
    IN  [mid |-> a.mid * sa + b.mid * sb,
         rad |-> a.rad * sa + b.rad * sb,
         pn |-> pn, pl |-> pl]

\* Whether the loop of truncate_tail replaces the monomial mon.
IsTruncatedAboveOnly(mon, deg, kappa) == mon.w > deg
IsTruncated(mon, deg, kappa) ==
    IF kappa = KappaNone THEN mon.w > deg ELSE mon.w >= deg

\* mon_g: the monomial that receives the term c*mon.
TargetMono(mon, deg, kappa) ==
    IF ~IsTruncated(mon, deg, kappa) THEN mon
    ELSE IF kappa = KappaNone THEN [mon EXCEPT !.w = deg]
    ELSE [mon EXCEPT !.w = deg, !.logn = kappa]

\* c_g: the coefficient that the term c*mon contributes to g.
TargetCoeffBoundsKept(c, mon, deg, kappa) ==
    IF ~IsTruncated(mon, deg, kappa)
    THEN (IF c.rad = 0 THEN c ELSE ZeroCentred(c))
    ELSE IF kappa = KappaNone THEN DivPowMinN(ZeroCentred(c), mon.w - deg)
    ELSE MulPowLogMin(DivPowMinN(ZeroCentred(c), mon.w - deg),
                      mon.logn - kappa)
TargetCoeff(c, mon, deg, kappa) ==
    IF ~IsTruncated(mon, deg, kappa) THEN c
    ELSE IF kappa = KappaNone THEN DivPowMinN(ZeroCentred(c), mon.w - deg)
    ELSE MulPowLogMin(DivPowMinN(ZeroCentred(c), mon.w - deg),
                      mon.logn - kappa)

\* logn**(kappa - deg_logn) with a negative exponent is no polynomial: the
\* call raises instead of returning.
TruncateRaises(f, deg, kappa) ==
    /\ kappa # KappaNone
    /\ \E mon \in Support(f) : mon.w >= deg /\ mon.logn > kappa

RECURSIVE SumTerms(_, _, _, _, _, _)
SumTerms(S, f, deg, kappa, min_n, logmin) ==
    IF S = {} THEN ZeroBall
    ELSE LET mon == CHOOSE x \in S : TRUE
         IN  BallAdd(TargetCoeff(f[mon], mon, deg, kappa),
                     SumTerms(S \ {mon}, f, deg, kappa, min_n, logmin),
                     min_n, logmin)

\* The polynomial g that truncate_tail returns.
TruncateTail(f, deg, min_n, kappa, logmin) ==
    [m \in Monos \cup {TargetMono(x, deg, kappa) : x \in Support(f)} |->
        SumTerms({x \in Support(f) : TargetMono(x, deg, kappa) = m},
                 f, deg, kappa, min_n, logmin)]

\* The value of a polynomial at w = 1/n, logn = ln, other variables = ov,
\* as a ball (EvalMid +- EvalRad) over the common denominator
\* min_n^PN * logmin^PL * n^DW.
RECURSIVE EvalMid(_, _, _, _, _, _, _)
EvalMid(S, p, n, ln, ov, min_n, logmin) ==
    IF S = {} THEN 0
    ELSE LET m == CHOOSE x \in S : TRUE
         IN  p[m].mid * Pow(min_n, MaxDegW + 1 - p[m].pn)
                      * Pow(logmin, MaxKappa - p[m].pl)
                      * Pow(ln, m.logn) * Pow(ov, m.other)
                      * Pow(n, MaxDegW + 1 - m.w)
             + EvalMid(S \ {m}, p, n, ln, ov, min_n, logmin)

RECURSIVE EvalRad(_, _, _, _, _, _, _)
EvalRad(S, p, n, ln, ov, min_n, logmin) ==
    IF S = {} THEN 0
    ELSE LET m == CHOOSE x \in S : TRUE
         IN  p[m].rad * Pow(min_n, MaxDegW + 1 - p[m].pn)
                      * Pow(logmin, MaxKappa - p[m].pl)
                      * Pow(ln, m.logn) * Pow(Abs(ov), m.other)
                      * Pow(n, MaxDegW + 1 - m.w)
             + EvalRad(S \ {m}, p, n, ln, ov, min_n, logmin)

\* The ball g(1/n) contains the ball f(1/n).
Encloses(g, f, n, ln, ov, min_n, logmin) ==
    Abs(EvalMid(Support(g), g, n, ln, ov, min_n, logmin)
        - EvalMid(Support(f), f, n, ln, ov, min_n, logmin))
      + EvalRad(Support(f), f, n, ln, ov, min_n, logmin)
    <= EvalRad(Support(g), g, n, ln, ov, min_n, logmin)

\* The polynomials f of at most two monomials.
InputPolys ==
    UNION {[S -> Coeffs] : S \in {{}} \cup {{a, b} : a \in Monos, b \in Monos}}

\* min_n, kappa and log(min_n): kappa is given only with min_n >= e, and
\* then log(min_n) >= 1.
InputScales ==
    {<<mn, KappaNone, 1>> : mn \in MinNs}
    \cup {<<mn, k, lm>> : mn \in {x \in MinNs : x >= 3},
                         k \in Kappas \ {KappaNone}, lm \in LogMins}

Extend(q) == [m \in Monos |-> IF m \in DOMAIN q THEN q[m] ELSE ZeroBall]

TTInit ==
    tt \in {[pc |-> "call", f |-> Extend(q), deg |-> d, min_n |-> sc[1],
             kappa |-> sc[2], logmin |-> sc[3], g |-> Extend(<<>>)] :
            q \in InputPolys, d \in 0..MaxDegW, sc \in InputScales}

\* truncate_tail(f, deg, min_n, w, kappa, logn) runs and returns g.
TTReturn ==
    /\ tt.pc = "call"
    /\ ~TruncateRaises(tt.f, tt.deg, tt.kappa)
    /\ tt' = [tt EXCEPT !.pc = "done",
                 !.g = TruncateTail(tt.f, tt.deg, tt.min_n, tt.kappa, tt.logmin)]
    /\ UNCHANGED <<stack, ret, top, cas, asy, sr, circ, cls>>

\* truncate_tail raises (kappa smaller than a degree in logn).
TTRaise ==
    /\ tt.pc = "call"
    /\ TruncateRaises(tt.f, tt.deg, tt.kappa)
    /\ tt' = [tt EXCEPT !.pc = "raised"]
    /\ UNCHANGED <<stack, ret, top, cas, asy, sr, circ, cls>>

TTNext == TTReturn \/ TTRaise

(***************************************************************************)
(* bound_coeff_mono                                                        *)
(***************************************************************************)

\* Bounds of the inputs of bound_coeff_mono.
MaxNegAlpha == 3    \* alpha ranges over -MaxNegAlpha .. 1, in halves
MaxLogPower == 2    \* l ranges over 0 .. MaxLogPower
MaxMonoMinN == 6    \* min_n ranges over 1 .. MaxMonoMinN

MonoDegs == {0, 1, 3}       \* values of deg
MonoScales == {3, 5}        \* values of s (s > 2)

\* QQbar(alpha).is_integer() and QQbar(alpha) <= 0, for alpha = alpha2/2
IsNonPosIntegerStrict(alpha2) == alpha2 % 2 = 0 /\ alpha2 < 0
IsNonPosInteger(alpha2) == alpha2 % 2 = 0 /\ alpha2 <= 0

\* min_n <= -int(alpha)
MinNTooSmallStrict(alpha2, min_n) == 2 * min_n < -alpha2
MinNTooSmall(alpha2, min_n) == 2 * min_n <= -alpha2

\* The divisions 1/(min_n - 1), 1/(1 - 1/(min_n - 1)) and
\* .../(1 - 2/(min_n - 1)) of the recursive branch divide by zero.
RecDividesByZero(min_n) == min_n \in {1, 2, 3}

\* Whether alpha*poly_rec_1 + l*poly_rec_2 (l > 0) is the zero polynomial.
CombineRec(alpha2, r1, r2) ==
    IF (alpha2 = 0 \/ r1 = "Zero") /\ r2 = "Zero" THEN "Zero" ELSE "Poly"

\* The frame of a call bound_coeff_mono(alpha, l, deg, ., ., s, min_n).
Frame(alpha2, l, deg, s, min_n) ==
    [alpha2 |-> alpha2, l |-> l, deg |-> deg, s |-> s, min_n |-> min_n,
     pc |-> "enter", r1 |-> "none"]

\* The two recursive calls of the contiguous relation.
FirstRecCall(fr) == Frame(fr.alpha2 + 2, fr.l, fr.deg, fr.s, fr.min_n - 1)
SecondRecCall(fr) == Frame(fr.alpha2 + 2, fr.l - 1, fr.deg, fr.s, fr.min_n - 1)

NoCall == [Frame(0, 0, 0, 0, 0) EXCEPT !.pc = "none"]
Ended(fr, res) == [fr EXCEPT !.pc = res]

Top == stack[Len(stack)]

\* A call returns res: its frame is popped and the caller takes the value.
ReturnTo(res) ==
    LET n == Len(stack) IN
    /\ ret' = Ended(Top, res)
    /\ IF n = 1
       THEN /\ stack' = <<>>
            /\ top' = Ended(top, res)
       ELSE LET caller == stack[n - 1] IN
            /\ top' = top
            /\ IF caller.pc = "rec1"
               THEN stack' = [SubSeq(stack, 1, n - 1) EXCEPT
                                 ![n - 1] = [caller EXCEPT !.pc = "rec2", !.r1 = res]]
                             \o <<SecondRecCall(caller)>>
               ELSE stack' = [SubSeq(stack, 1, n - 1) EXCEPT
                                 ![n - 1] = [caller EXCEPT !.pc = "combine",
                                                !.r1 = CombineRec(caller.alpha2, caller.r1, res)]]

\* A call raises exc: no caller handles it, every frame is unwound.
Raise(exc) ==
    /\ ret' = Ended(Top, exc)
    /\ stack' = <<>>
    /\ top' = Ended(top, exc)

BCMInit ==
    \E a2 \in (-2 * MaxNegAlpha)..2, l \in 0..MaxLogPower, d \in MonoDegs,
       sc \in MonoScales, mn \in 1..MaxMonoMinN :
        /\ stack = <<Frame(a2, l, d, sc, mn)>>
        /\ top = Frame(a2, l, d, sc, mn)
        /\ ret = NoCall

\* alpha is not a non-positive integer: the product of the four expansions.
BCMGeneric ==
    /\ stack # <<>> /\ Top.pc = "enter"
    /\ ~IsNonPosInteger(Top.alpha2)
    /\ ReturnTo("Poly")
    /\ UNCHANGED <<tt, cas, asy, sr, circ, cls>>

\* alpha a non-positive integer, l = 0: the terminating expansion, R(0).
BCMTerminating ==
    /\ stack # <<>> /\ Top.pc = "enter"
    /\ IsNonPosInteger(Top.alpha2) /\ Top.l = 0
    /\ ~MinNTooSmall(Top.alpha2, Top.min_n)
    /\ ReturnTo("Zero")
    /\ UNCHANGED <<tt, cas, asy, sr, circ, cls>>

\* ... raise ValueError("min_n too small!")
BCMTooSmall ==
    /\ stack # <<>> /\ Top.pc = "enter"
    /\ IsNonPosInteger(Top.alpha2) /\ Top.l = 0
    /\ MinNTooSmall(Top.alpha2, Top.min_n)
    /\ Raise("ValueError")
    /\ UNCHANGED <<tt, cas, asy, sr, circ, cls>>

\* alpha a non-positive integer, l > 0: the first recursive call.
BCMRecurse ==
    /\ stack # <<>> /\ Top.pc = "enter"
    /\ IsNonPosInteger(Top.alpha2) /\ Top.l > 0
    /\ stack' = [stack EXCEPT ![Len(stack)] = [Top EXCEPT !.pc = "rec1"]]
                \o <<FirstRecCall(Top)>>
    /\ UNCHANGED <<ret, top, tt, cas, asy, sr, circ, cls>>

\* Both recursive calls have returned: the error terms are computed and
\* truncate_tail(ss, deg, min_n, w) is returned.
BCMCombine ==
    /\ stack # <<>> /\ Top.pc = "combine"
    /\ ~RecDividesByZero(Top.min_n)
    /\ ReturnTo(Top.r1)
    /\ UNCHANGED <<tt, cas, asy, sr, circ, cls>>

\* ... or the computation of the error terms divides by zero.
BCMDivideByZero ==
    /\ stack # <<>> /\ Top.pc = "combine"
    /\ RecDividesByZero(Top.min_n)
    /\ Raise("ZeroDivisionError")
    /\ UNCHANGED <<tt, cas, asy, sr, circ, cls>>

BCMNext ==
    \/ BCMGeneric
    \/ BCMTerminating
    \/ BCMTooSmall
    \/ BCMRecurse
    \/ BCMCombine
    \/ BCMDivideByZero

TTIdle == [pc |-> "idle"]
CASIdle == [pc |-> "idle"]
AsyIdle == [pc |-> "idle"]
SRIdle == [pc |-> "idle"]
CircIdle == [pc |-> "idle"]
ClsIdle == [pc |-> "idle"]

(***************************************************************************)
(* contribution_all_singularity                                            *)
(***************************************************************************)

\* Bounds of the inputs of contribution_all_singularity.
MaxCoord == 4       \* the points are the integers -MaxCoord .. MaxCoord
MaxOrder == 2       \* total_order ranges over 1 .. MaxOrder

RadNone == -1               \* stands for rad = None (the default)
Points == (-MaxCoord)..MaxCoord
UserRads == {5, 20, 25, 45}                        \* rad, in tenths
KnownAnalytics == {{0}}                             \* known_analytic
AllMinNs == {10, 50}                                \* min_n

\* abs(x), in tenths
Mod10(x) == 10 * Abs(x)

SeqToSet(q) == {q[i] : i \in DOMAIN q}

\* The smallest and the largest element of a non-empty set of integers.
MinOf(S) == CHOOSE x \in S : \A y \in S : x <= y
MaxOf(S) == CHOOSE x \in S : \A y \in S : x >= y

RECURSIVE Ascending(_)
Ascending(S) ==
    IF S = {} THEN <<>> ELSE <<MinOf(S)>> \o Ascending(S \ {MinOf(S)})

RECURSIVE Descending(_)
Descending(S) ==
    IF S = {} THEN <<>> ELSE <<MaxOf(S)>> \o Descending(S \ {MaxOf(S)})

\* The lists of at most three distinct points, as deq._singularities may
\* return them: in increasing or in decreasing order.
PointLists ==
    UNION {{Ascending(S), Descending(S)} :
              S \in {T \in SUBSET Points : Cardinality(T) <= 3}}

\* ceil(a/b) for b > 0
CeilDiv(a, b) == IF a % b = 0 THEN a \div b ELSE (a \div b) + 1

\* [s for s in singularities if not s in known_analytic]
RECURSIVE FilterKnown(_, _)
FilterKnown(q, known) ==
    IF q = <<>> THEN <<>>
    ELSE IF Head(q) \in known THEN FilterKnown(Tail(q), known)
    ELSE <<Head(q)>> \o FilterKnown(Tail(q), known)

\* singularities.sort(key=lambda s: abs(s)): a stable sort.
RECURSIVE InsertByAbs(_, _)
InsertByAbs(q, x) ==
    IF q = <<>> THEN <<x>>
    ELSE IF Abs(Head(q)) <= Abs(x) THEN <<Head(q)>> \o InsertByAbs(Tail(q), x)
    ELSE <<x>> \o q

RECURSIVE SortByAbs(_)
SortByAbs(q) ==
    IF q = <<>> THEN <<>>
    ELSE InsertByAbs(SortByAbs(SubSeq(q, 1, Len(q) - 1)), q[Len(q)])

\* _sing_in_disk(elts, rad, infinity): the elements before the first one of
\* modulus > rad, and that modulus (infinity when there is none).
FirstOutsideOrOn(elts, rad10) ==
    IF \E j \in DOMAIN elts : Mod10(elts[j]) >= rad10
    THEN MinOf({j \in DOMAIN elts : Mod10(elts[j]) >= rad10})
    ELSE Len(elts) + 1
FirstOutside(elts, rad10) ==
    IF \E j \in DOMAIN elts : Mod10(elts[j]) > rad10
    THEN MinOf({j \in DOMAIN elts : Mod10(elts[j]) > rad10})
    ELSE Len(elts) + 1

SingInDisk(elts, rad10, infinity) ==
    LET j == FirstOutside(elts, rad10) IN
    [inside |-> SubSeq(elts, 1, j - 1),
     mag |-> IF j <= Len(elts) THEN Abs(elts[j]) ELSE infinity]

\* all_exn_points: the singular points of the equation, plus the origin.
AllExnPoints(singularities, apparent) ==
    SeqToSet(singularities) \cup apparent \cup {0}

\* max_smallrad of _choose_big_radius (the set is empty when min() raises).
SmallRads(all_exn_points, dominant_sing) ==
    {Abs(ex - dominant_sing[i]) :
        <<i, ex>> \in {c \in (DOMAIN dominant_sing) \X all_exn_points :
                          c[2] # dominant_sing[c[1]]}}

\* _choose_big_radius, in tenths:
\* min(next_sing_rad*9/10 + dom_rad/10, dom_rad + max_smallrad*8/10)
ChooseBigRadius(all_exn_points, dominant_sing, next_sing_rad) ==
    LET max_smallrad == MinOf(SmallRads(all_exn_points, dominant_sing))
        dom_rad == Abs(dominant_sing[Len(dominant_sing)])
    IN  Min2(9 * next_sing_rad + dom_rad, 10 * dom_rad + 8 * max_smallrad)

\* min(abs(s0 - s1) for s0 in dominant_sing for s1 in dominant_sing if s0 != s1)
MinDist(dominant_sing) ==
    MinOf({Abs(dominant_sing[i] - dominant_sing[j]) :
              <<i, j>> \in {c \in (DOMAIN dominant_sing) \X (DOMAIN dominant_sing) :
                              dominant_sing[c[1]] # dominant_sing[c[2]]}})

\* N1 = ceil(2*abs(dominant_sing[-1])/min_dist), or 0 for one singularity
ComputeN1(dominant_sing) ==
    IF Len(dominant_sing) > 1
    THEN CeilDiv(2 * Abs(dominant_sing[Len(dominant_sing)]), MinDist(dominant_sing))
    ELSE 0

\* halfside = min(abs(abs(ex) - rad) for ex in all_exn_points)/10, in
\* hundredths (rad10 is the radius in tenths)
Halfside(all_exn_points, rad10) ==
    MinOf({Abs(Mod10(ex) - rad10) : ex \in all_exn_points})

CASStart(singularities, apparent, known, rad, total_order, min_n) ==
    [pc |-> "start",
     singularities |-> singularities, apparent |-> apparent,
     known_analytic |-> known, rad |-> rad,
     total_order |-> total_order, min_n |-> min_n,
     sings |-> <<>>, dominant_sing |-> <<>>, rad10 |-> 0, next_sing_rad |-> 0,
     N1 |-> 0, halfside |-> 0, sampled |-> FALSE,
     list_data |-> <<>>, none_returned |-> FALSE,
     err |-> "none", N0 |-> 0, bound |-> <<>>,
     final_kappa |-> 0, final_val2 |-> 0,
     crits |-> <<>>, calls |-> 1]

CASInit ==
    cas \in {CASStart(q, app, known, rad, to, mn) :
                q \in PointLists,
                app \in {{}} \cup {{x} : x \in Points \ {0}},
                known \in KnownAnalytics,
                rad \in {RadNone} \cup UserRads,
                to \in 1..MaxOrder, mn \in AllMinNs}
    /\ SeqToSet(cas.singularities) \cap cas.apparent = {}

CASRaise(exc) == cas' = [cas EXCEPT !.pc = "raised", !.err = exc]

\* The potential singularities: filtered, then sorted by modulus.
Potential == SortByAbs(FilterKnown(cas.singularities, cas.known_analytic))

\* Lines 878-907: the potential singularities, the dominant ones, the radius.
CASSelect ==
    /\ cas.pc = "start"
    /\ LET sings == Potential
           all_exn == AllExnPoints(cas.singularities, cas.apparent)
       IN
       IF sings = <<>>
       THEN \* singularities[0], singularities[-1] of an empty list
            CASRaise("IndexError")
       ELSE IF cas.rad = RadNone
       THEN LET sd == SingInDisk(sings, Mod10(sings[1]), 3 * Abs(sings[Len(sings)]))
            IN  IF SmallRads(all_exn, sd.inside) = {}
                THEN \* min() of an empty sequence in _choose_big_radius
                     CASRaise("ValueError: min() arg is an empty sequence")
                ELSE cas' = [cas EXCEPT !.pc = "selected", !.sings = sings,
                                !.dominant_sing = sd.inside, !.next_sing_rad = sd.mag,
                                !.rad10 = ChooseBigRadius(all_exn, sd.inside, sd.mag)]
       ELSE LET sd == SingInDisk(sings, cas.rad, 0)
            IN  IF sd.inside = <<>>
                THEN CASRaise("ValueError: No singularity in given disk")
                ELSE IF Mod10(sd.inside[Len(sd.inside)]) = cas.rad
                THEN CASRaise("ValueError: A singularity is on the given radius")
                ELSE cas' = [cas EXCEPT !.pc = "selected", !.sings = sings,
                                !.dominant_sing = sd.inside, !.rad10 = cas.rad]
    /\ UNCHANGED <<tt, stack, ret, top, asy, sr, circ, cls>>

\* Lines 909-928: N1, halfside, and the call of numerical_sol_big_circle.
\* With halfside = 0 the number np of squares of an arc (line 786) is not
\* finite and the call fails.
CASBigCircle ==
    /\ cas.pc = "selected"
    /\ LET hs == Halfside(AllExnPoints(cas.singularities, cas.apparent), cas.rad10)
       IN  cas' = [cas EXCEPT !.N1 = ComputeN1(cas.dominant_sing),
                       !.halfside = hs, !.sampled = TRUE,
                       !.pc = IF hs = 0 THEN "raised" ELSE "loop",
                       !.err = IF hs = 0 THEN "numerical_sol_big_circle failed" ELSE "none"]
    /\ UNCHANGED <<tt, stack, ret, top, asy, sr, circ, cls>>

\* A local solution at rho, as critical_monomials lists it: leftmost2 is
\* twice the leftmost exponent of its class, shift its shift, and logs the
\* largest power of log in its expansion.
Sol(leftmost2, shift, logs) ==
    [leftmost2 |-> leftmost2, shift |-> shift, logs |-> logs]

\* The local bases (lists crit) that a dominant singularity may have.
LocalBases ==
    {<<Sol(0, 0, 0)>>,                      \* every solution analytic
     <<Sol(-1, 0, 0)>>,                     \* exponent -1/2
     <<Sol(0, 0, 1)>>,                      \* exponent 0, with a logarithm
     <<Sol(0, 1, 0), Sol(-3, 0, 0)>>,       \* an analytic solution, and -3/2
     <<Sol(-3, 0, 0), Sol(0, 1, 0)>>,
     <<Sol(-1, 0, 0), Sol(-4, 0, 1)>>}      \* -1/2 listed before a double pole

\* sol.leftmost.is_integer() and sol.leftmost + sol.shift >= 0
\* and all(c.is_zero() for term in sol.value.values() for c in term[1:])
IsAnalytic(sol) ==
    /\ sol.leftmost2 % 2 = 0
    /\ sol.leftmost2 + 2 * sol.shift >= 0
    /\ sol.logs = 0

RECURSIVE Nonanalytic(_)
Nonanalytic(crit) ==
    IF crit = <<>> THEN <<>>
    ELSE IF IsAnalytic(Head(crit)) THEN Nonanalytic(Tail(crit))
    ELSE <<Head(crit)>> \o Nonanalytic(Tail(crit))

\* The exponent classes of crit (their leftmost2), in the order of the list.
RECURSIVE Classes(_)
Classes(crit) ==
    IF crit = <<>> THEN <<>>
    ELSE LET rest == Classes(SubSeq(crit, 1, Len(crit) - 1))
             lm == crit[Len(crit)].leftmost2
         IN  IF lm \in SeqToSet(rest) THEN rest ELSE rest \o <<lm>>

\* order = (self.abs_order - self.leftmost.real()).ceil()
ClassOrder(abs_order2, leftmost2) == CeilDiv(abs_order2 - leftmost2, 2)

\* Twice abs(self.leftmost) + abs(order), the divisor of s.
ClassDivisor2(abs_order2, leftmost2) ==
    Abs(leftmost2) + 2 * Abs(ClassOrder(abs_order2, leftmost2))

\* process_modZ_class on one class: "ok", or the exception it raises.
ProcessClass(abs_order2, leftmost2, min_n) ==
    LET d2 == ClassDivisor2(abs_order2, leftmost2) IN
    IF d2 = 0 THEN "ZeroDivisionError"
    ELSE IF (2 * min_n) \div d2 <= 2
    THEN "ValueError: min_n too small! Cannot guarantee s>2"
    ELSE "ok"

\* The first exception raised while the classes are processed, or "ok".
RECURSIVE ProcessClasses(_, _, _)
ProcessClasses(abs_order2, classes, min_n) ==
    IF classes = <<>> THEN "ok"
    ELSE LET r == ProcessClass(abs_order2, Head(classes), min_n) IN
         IF r # "ok" THEN r
         ELSE ProcessClasses(abs_order2, Tail(classes), min_n)

\* kappa of a class: the largest power of log among its solutions.
ClassKappa(crit, leftmost2) ==
    MaxOf({crit[i].logs : i \in {j \in DOMAIN crit : crit[j].leftmost2 = leftmost2}})

\* contribution_single_singularity: what it returns for rho, or how it ends.
ContributionSingle(rho, crit, rel_order, min_n) ==
    LET nonanalytic == Nonanalytic(crit) IN
    IF nonanalytic = <<>> THEN [outcome |-> "None"]
    ELSE LET min_val_rho2 == nonanalytic[1].leftmost2 + 2 * nonanalytic[1].shift
             abs_order2 == 2 * rel_order + min_val_rho2
             classes == Classes(crit)
             run == ProcessClasses(abs_order2, classes, min_n)
         IN  IF run # "ok" THEN [outcome |-> run]
             ELSE [outcome |-> "ok",
                   rho |-> rho,
                   list_val_rho |-> classes,
                   max_kappa |-> MaxOf({ClassKappa(crit, lm) : lm \in SeqToSet(classes)}),
                   min_val_rho2 |-> min_val_rho2]

\* Lines 939-945: rho is analysed and the five values returned are unpacked
\* (None cannot be unpacked).
Analyse(rho) ==
    \E crit \in LocalBases :
          LET r == ContributionSingle(rho, crit, cas.total_order, cas.min_n)
          IN  IF r.outcome = "None"
              THEN cas' = [cas EXCEPT !.pc = "raised", !.none_returned = TRUE,
                              !.err = "TypeError: cannot unpack NoneType"]
              ELSE IF r.outcome # "ok"
              THEN CASRaise(r.outcome)
              ELSE cas' = [cas EXCEPT !.list_data = Append(@, r),
                              !.crits = Append(@, crit)]

\* Lines 938-945, one turn of the loop: the next rho of dominant_sing.
CASSingle ==
    /\ cas.pc = "loop"
    /\ Len(cas.list_data) < Len(cas.dominant_sing)
    /\ Analyse(cas.dominant_sing[Len(cas.list_data) + 1])
    /\ UNCHANGED <<tt, stack, ret, top, asy, sr, circ, cls>>

\* The same analyses run in any order: any rho not analysed yet.
CASSingleAnyOrder ==
    /\ cas.pc = "loop"
    /\ \E rho \in SeqToSet(cas.dominant_sing)
                   \ {cas.list_data[i].rho : i \in DOMAIN cas.list_data} :
          Analyse(rho)
    /\ UNCHANGED <<tt, stack, ret, top, asy, sr, circ, cls>>

\* final_kappa = max(list_max_kappa)
FinalKappa(list_data) ==
    MaxOf({list_data[i].max_kappa : i \in DOMAIN list_data})

\* final_val = min(list_min_val_rho), doubled
FinalVal2OfFirst(list_data) == list_data[1].min_val_rho2
FinalVal2(list_data) ==
    MinOf({list_data[i].min_val_rho2 : i \in DOMAIN list_data})

\* max([abs(val) for val in list_all_val]), doubled
MaxAbsVal2(list_data) ==
    MaxOf({Abs(list_data[i].list_val_rho[j]) :
              <<i, j>> \in {c \in (DOMAIN list_data) \X (1..2) :
                              c[2] \in DOMAIN list_data[c[1]].list_val_rho}})

\* N0 = max(ceil(2.1 * (max(abs(val)) + total_order + 1)), N1)
ComputeN0OrderSubtracted(list_data, total_order, N1) ==
    Max2(CeilDiv(21 * (MaxAbsVal2(list_data) - 2 * total_order + 2), 20), N1)
ComputeN0WithoutN1(list_data, total_order, N1) ==
    CeilDiv(21 * (MaxAbsVal2(list_data) + 2 * total_order + 2), 20)
ComputeN0(list_data, total_order, N1) ==
    Max2(CeilDiv(21 * (MaxAbsVal2(list_data) + 2 * total_order + 2), 20), N1)

\* The entries [rho, ser] of bound, before the big-circle term is added.
SingBound(list_data) ==
    [i \in DOMAIN list_data |-> [rho |-> list_data[i].rho, big_circle |-> 0]]

\* Lines 978-985: the big-circle term goes to the entry of
\* abs(dominant_sing[0]) when list_rho has it, else to a new entry.
AddBigCircleAlwaysAppend(bound, rho0abs) ==
    Append(bound, [rho |-> rho0abs, big_circle |-> 1])
AddBigCircle(bound, rho0abs) ==
    IF \E i \in DOMAIN bound : bound[i].rho = rho0abs
    THEN LET ind == MinOf({i \in DOMAIN bound : bound[i].rho = rho0abs})
         IN  [bound EXCEPT ![ind].big_circle = @ + 1]
    ELSE Append(bound, [rho |-> rho0abs, big_circle |-> 1])

\* Lines 947-993: the common truncation, the big-circle term, N0.
CASAggregate ==
    /\ cas.pc = "loop"
    /\ Len(cas.list_data) = Len(cas.dominant_sing)
    /\ cas' = [cas EXCEPT !.pc = "done",
                  !.final_kappa = FinalKappa(cas.list_data),
                  !.final_val2 = FinalVal2(cas.list_data),
                  !.bound = AddBigCircle(SingBound(cas.list_data),
                                         Abs(cas.dominant_sing[1])),
                  !.N0 = ComputeN0(cas.list_data, cas.total_order, cas.N1)]
    /\ UNCHANGED <<tt, stack, ret, top, asy, sr, circ, cls>>

\* The caller asks again with total_order + 1 and everything else
\* unchanged: the singularities, the radius and N1 are the same, the local
\* basis at each rho (cas.crits) is that of the same operator, and lines
\* 938-993 run with the new order.
RecordsAtOrder(total_order) ==
    [i \in DOMAIN cas.dominant_sing |->
        ContributionSingle(cas.dominant_sing[i], cas.crits[i],
                           total_order, cas.min_n)]

CASRaiseOrder ==
    /\ cas.pc = "done"
    /\ cas.total_order <= MaxOrder
    /\ LET order == cas.total_order + 1
           list_data == RecordsAtOrder(order)
           failed == {i \in DOMAIN list_data : list_data[i].outcome # "ok"}
       IN  IF failed # {}
           THEN cas' = [cas EXCEPT !.pc = "raised", !.total_order = order,
                           !.calls = @ + 1,
                           !.err = list_data[MinOf(failed)].outcome]
           ELSE cas' = [cas EXCEPT !.total_order = order, !.calls = @ + 1,
                           !.list_data = list_data,
                           !.final_kappa = FinalKappa(list_data),
                           !.final_val2 = FinalVal2(list_data),
                           !.bound = AddBigCircle(SingBound(list_data),
                                                  Abs(cas.dominant_sing[1])),
                           !.N0 = ComputeN0(list_data, order, cas.N1)]
    /\ UNCHANGED <<tt, stack, ret, top, asy, sr, circ, cls>>

CASNext ==
    \/ CASSelect
    \/ CASBigCircle
    \/ CASSingle
    \/ CASAggregate
    \/ CASRaiseOrder

(***************************************************************************)
(* truncate_tail_SR, and its call by contribution_all_singularity          *)
(***************************************************************************)

\* Exponents of n are kept in halves, like the local exponents: an exponent
\* e is written e2 = 2*e.
ClassVals2 == {-3, -1, 0, 1}    \* val: the exponent of a class, doubled
FinalVals2 == {-3, -1, 0}       \* final_val, doubled
FinalKappas == {0, 1}           \* final_kappa

\* val.real() - deg_w <= deg
IsTailSRStrict(val2, mon, deg2) == val2 - 2 * mon.w < deg2
IsTailSR(val2, mon, deg2) == val2 - 2 * mon.w <= deg2

\* The summand of g for the term c*mon of f (lines 218-223): the ball is
\* coefficient / min_n^(min_n_pow2/2) * log(min_n)^logmin_pow, the growth is
\* n^(exp2/2) * log(n)^logpow.
TermSR(c, mon, val2, deg2, kappa) ==
    IF IsTailSR(val2, mon, deg2)
    THEN [coefficient |-> ZeroCentred(c),
          min_n_pow2 |-> deg2 + 2 * mon.w - val2,
          logmin_pow |-> mon.logn - kappa,
          exp2 |-> deg2, logpow |-> kappa]
    ELSE [coefficient |-> c, min_n_pow2 |-> 0, logmin_pow |-> 0,
          exp2 |-> val2 - 2 * mon.w, logpow |-> mon.logn]

\* truncate_tail_SR(val, f, deg, min_n, w, kappa, logn, n): the summands of
\* g, one for each term of f.
TruncateTailSR(val2, f, deg2, kappa) ==
    [mon \in Support(f) |-> TermSR(f[mon], mon, val2, deg2, kappa)]

\* re_gam = - final_val - 1, doubled
ReGam2(final_val2) == -final_val2 - 2

\* The big-circle term of lines 982, 985:
\* CB(0).add_error(rad_err) * n^(re_gam - total_order) * log(n)^final_kappa
BigCircleTerm(final_val2, total_order, final_kappa) ==
    [coefficient |-> Ball(0, 1), min_n_pow2 |-> 0, logmin_pow |-> 0,
     exp2 |-> ReGam2(final_val2) - 2 * total_order, logpow |-> final_kappa]

SRInit ==
    sr \in {[pc |-> "start", val2 |-> v, final_val2 |-> fv,
             total_order |-> to, final_kappa |-> k, poly_bound |-> Extend(q),
             g |-> <<>>, big_circle |-> <<>>] :
                v \in ClassVals2, fv \in FinalVals2, to \in 1..MaxOrder,
                k \in FinalKappas, q \in InputPolys}

\* Lines 947-985 for one pair (val, poly_bound) of list_data: the bound is
\* re-truncated and the big-circle term is made.
CASRetruncate ==
    /\ sr.pc = "start"
    /\ sr' = [sr EXCEPT !.pc = "done",
                 !.g = TruncateTailSR(-sr.val2 - 2, sr.poly_bound,
                                      ReGam2(sr.final_val2) - 2 * sr.total_order,
                                      sr.final_kappa),
                 !.big_circle = BigCircleTerm(sr.final_val2, sr.total_order,
                                              sr.final_kappa)]
    /\ UNCHANGED <<tt, stack, ret, top, cas, asy, circ, cls>>

(***************************************************************************)
(* process_modZ_class, and its calls of bound_coeff_mono through           *)
(* _bound_local_integral_explicit_terms                                    *)
(***************************************************************************)

ClassLeftmosts2 == (-4)..2          \* twice self.leftmost
ClassRelOrders2 == 0..4             \* twice (self.abs_order - self.leftmost)
ClassMinNs == {3, 5, 7, 12}         \* self.min_n

\* s = floor(self.min_n / (abs(self.leftmost) + abs(order)))
ClassScale(abs_order2, leftmost2, min_n) ==
    (2 * min_n) \div ClassDivisor2(abs_order2, leftmost2)

\* The call of bound_coeff_mono for the monomial Z^degZ * L^degL of the
\* explicit terms: bound_coeff_mono(-val_rho-degZ, degL, order - degZ, w,
\* logn, s, min_n).
ExplicitTermCall(c, degZ, degL) ==
    Frame(-c.leftmost2 - 2 * degZ, degL,
          ClassOrder(c.abs_order2, c.leftmost2) - degZ, c.s, c.min_n)

ClsInit ==
    \E lm \in ClassLeftmosts2, ro \in ClassRelOrders2, mn \in ClassMinNs :
        cls = [pc |-> "start", leftmost2 |-> lm, abs_order2 |-> lm + ro,
               min_n |-> mn, s |-> 0, result |-> "none"]

\* The division by abs(self.leftmost) + abs(order), or the test s <= 2,
\* raises.
PMCRaise ==
    /\ cls.pc = "start"
    /\ ProcessClass(cls.abs_order2, cls.leftmost2, cls.min_n) # "ok"
    /\ cls' = [cls EXCEPT !.pc = "raised",
                 !.result = ProcessClass(cls.abs_order2, cls.leftmost2,
                                         cls.min_n)]
    /\ UNCHANGED <<tt, stack, ret, top, cas, asy, sr, circ>>

\* s > 2: the explicit terms ser[:order] are bounded next.
PMCScale ==
    /\ cls.pc = "start"
    /\ ProcessClass(cls.abs_order2, cls.leftmost2, cls.min_n) = "ok"
    /\ cls' = [cls EXCEPT !.pc = "terms",
                 !.s = ClassScale(cls.abs_order2, cls.leftmost2, cls.min_n)]
    /\ UNCHANGED <<tt, stack, ret, top, cas, asy, sr, circ>>

\* One monomial of the explicit terms: bound_coeff_mono is called.
PMCExplicitTerm ==
    /\ cls.pc = "terms"
    /\ \E degZ \in 0..(ClassOrder(cls.abs_order2, cls.leftmost2) - 1),
          degL \in 0..MaxLogPower :
        /\ stack' = <<ExplicitTermCall(cls, degZ, degL)>>
        /\ top' = ExplicitTermCall(cls, degZ, degL)
    /\ ret' = NoCall
    /\ cls' = [cls EXCEPT !.pc = "term"]
    /\ UNCHANGED <<tt, cas, asy, sr, circ>>

\* The call has returned or raised; an empty ser[:order] has no terms.
PMCReturn ==
    \/ /\ cls.pc = "term" /\ stack = <<>>
       /\ cls' = [cls EXCEPT !.pc = "done", !.result = top.pc]
       /\ UNCHANGED <<tt, stack, ret, top, cas, asy, sr, circ>>
    \/ /\ cls.pc = "terms"
       /\ ClassOrder(cls.abs_order2, cls.leftmost2) = 0
       /\ cls' = [cls EXCEPT !.pc = "done", !.result = "Zero"]
       /\ UNCHANGED <<tt, stack, ret, top, cas, asy, sr, circ>>

\* BCMTooSmall is left out: it is never enabled here (NeverTooSmall).
PMCNext ==
    \/ PMCRaise
    \/ PMCScale
    \/ PMCExplicitTerm
    \/ PMCReturn
    \/ BCMGeneric
    \/ BCMTerminating
    \/ BCMRecurse
    \/ BCMCombine
    \/ BCMDivideByZero

(***************************************************************************)
(* numerical_sol_big_circle                                                *)
(***************************************************************************)

\* Arguments are kept in units of pi/(2*ArgSteps): the arguments of the
\* dominant singularities are the even numbers of -2*(ArgSteps-1) ..
\* 2*ArgSteps, that is the multiples of pi/ArgSteps in (-pi, pi], so that a
\* midpoint of two of them is a whole number of units.
ArgSteps == 4
Turn == 4 * ArgSteps                \* 2*pi
SingArgs == {2 * k : k \in (1 - ArgSteps)..ArgSteps}
UnitLengths == {1, 3}               \* the length of one unit of arc on |z| = rad
BCHalfsides == {1, 2}               \* halfside, in the same unit of length

\* The lists sings after sings.sort(key=lambda s: s.arg()): at most three
\* singularities, of distinct arguments.
SortedArgs ==
    {Ascending(S) :
        S \in {T \in SUBSET SingArgs : T # {} /\ Cardinality(T) <= 3}}

\* arg0 and arg1 of the turn j0 of the loop (lines 777-782).
Arg0(sings, j0) == sings[j0]
Arg1(sings, j0) ==
    IF j0 = Len(sings) THEN sings[1] + Turn ELSE sings[j0 + 1]

\* np = ceil(halfarc*rad/(2*halfside)) + 2, for an arc of halfarc units
NumSquares(halfarc, unit_len, halfside) ==
    CeilDiv(halfarc * unit_len, 2 * halfside) + 2

\* circle_upper of the turn j0: np + 1 centres from the argument of hub,
\* (arg0 + arg1)/2, to arg1.
UpperArc(sings, j0, unit_len, halfside) ==
    LET arg0 == Arg0(sings, j0)
        arg1 == Arg1(sings, j0)
        halfarc == (arg1 - arg0) \div 2
    IN  [lo |-> (arg0 + arg1) \div 2, hi |-> arg1,
         np |-> NumSquares(halfarc, unit_len, halfside)]

\* path_lower: the conjugates of the centres of circle_upper.
Conjugate(arc) == [lo |-> -arc.hi, hi |-> -arc.lo, np |-> arc.np]

\* The arcs sampled by numerical_sol_big_circle.
RECURSIVE SampledArcs(_, _, _, _)
SampledArcs(sings, j0, unit_len, halfside) ==
    IF j0 > Len(sings) THEN <<>>
    ELSE <<UpperArc(sings, j0, unit_len, halfside),
           Conjugate(UpperArc(sings, j0, unit_len, halfside))>>
             \o SampledArcs(sings, j0 + 1, unit_len, halfside)

CircInit ==
    circ \in {[pc |-> "start", sings |-> q, unit_len |-> u, halfside |-> h,
               arcs |-> <<>>] :
                  q \in SortedArgs, u \in UnitLengths, h \in BCHalfsides}

\* numerical_sol_big_circle runs and returns the pairs (z, f(z)).
BCSample ==
    /\ circ.pc = "start"
    /\ circ' = [circ EXCEPT !.pc = "done",
                   !.arcs = SampledArcs(circ.sings, 1, circ.unit_len,
                                        circ.halfside)]
    /\ UNCHANGED <<tt, stack, ret, top, cas, asy, sr, cls>>

(***************************************************************************)
(* bound_coefficients, to_asymptotic_expansion                             *)
(***************************************************************************)

\* What contribution_all_singularity hands to to_asymptotic_expansion: the
\* entries [rho, expr] of bound, expr a sum of terms coefficient*growth.
TermRhos == {1, -1, 2}
CallerN0s == {50, 60}       \* n0 of bound_coefficients
ReturnedN0s == {5, 55}      \* n0bis, the N0 of contribution_all_singularity
Growths == {0, 1}           \* the growths n^a*log(n)^b of an expression

\* Coefficients: exact, inexact and away from zero, containing zero off
\* centre, centred at zero.
TermBalls == {Ball(1, 0), Ball(-2, 1), Ball(1, 1), Ball(0, 1)}

SymTerms == [coefficient : TermBalls, growth : Growths]

\* An expression is one term, or a sum of two terms of distinct growths.
Exprs ==
    {<<a>> : a \in SymTerms}
        \cup {<<c[1], c[2]>> :
                 c \in {d \in SymTerms \X SymTerms : d[1].growth # d[2].growth}}

TermEntries == [rho : TermRhos, expr : Exprs]

TermData ==
    {<<a>> : a \in TermEntries}
        \cup {<<c[1], c[2]>> : c \in TermEntries \X TermEntries}

\* n0 = max(n0, n0bis)
CombinedN0CallerOnly(n0, n0bis) == n0
CombinedN0(n0, n0bis) == Max2(n0, n0bis)

\* c.contains_zero()
ContainsZero(c) == Abs(c.mid) <= c.rad

\* rho0 of the loop: term_data[0][0], or its modulus when the rho differ.
Rho0(term_data) ==
    IF \A i \in DOMAIN term_data : term_data[i].rho = term_data[1].rho
    THEN term_data[1].rho
    ELSE Abs(term_data[1].rho)

\* assert abs(dir).is_one() for dir = rho0/rho
DirOnUnitCircle(rho0, rho) == Abs(rho0) = Abs(rho)

\* make_arg_factor(rho0/rho): 1 for a direction on the positive real axis,
\* else the direction itself (here -1).
ArgFactor(rho0, rho) == IF rho0 = rho THEN 1 ELSE -1

\* Lines 1055-1058: the term of one summand.
MakeTerm(symterm, arg, n0) ==
    IF ContainsZero(symterm.coefficient)
    THEN [kind |-> "B", coefficient |-> AboveAbs(symterm.coefficient),
          growth |-> symterm.growth, arg |-> arg, valid_from |-> n0]
    ELSE [kind |-> "exact", ball |-> symterm.coefficient,
          growth |-> symterm.growth, arg |-> arg]

\* The terms of one entry [rho, expr].
EntryTerms(entry, rho0, n0) ==
    [k \in DOMAIN entry.expr |->
        MakeTerm(entry.expr[k], ArgFactor(rho0, entry.rho), n0)]

\* The list terms of to_asymptotic_expansion.
RECURSIVE AllTerms(_, _, _)
AllTerms(term_data, rho0, n0) ==
    IF term_data = <<>> THEN <<>>
    ELSE EntryTerms(Head(term_data), rho0, n0)
             \o AllTerms(Tail(term_data), rho0, n0)

AsyInit ==
    asy \in {[pc |-> "start", n0 |-> n0, n0bis |-> n0bis,
              term_data |-> td, terms |-> <<>>] :
                 n0 \in CallerN0s, n0bis \in ReturnedN0s, td \in TermData}

\* bound_coefficients returns the expansion.
BCReturn ==
    /\ asy.pc = "start"
    /\ \A i \in DOMAIN asy.term_data :
          DirOnUnitCircle(Rho0(asy.term_data), asy.term_data[i].rho)
    /\ asy' = [asy EXCEPT !.pc = "done",
                  !.terms = AllTerms(asy.term_data, Rho0(asy.term_data),
                                     CombinedN0(asy.n0, asy.n0bis))]
    /\ UNCHANGED <<tt, stack, ret, top, cas, sr, circ, cls>>

\* The assertion of line 1048 fails for an entry.
BCAssertionError ==
    /\ asy.pc = "start"
    /\ \E i \in DOMAIN asy.term_data :
          ~DirOnUnitCircle(Rho0(asy.term_data), asy.term_data[i].rho)
    /\ asy' = [asy EXCEPT !.pc = "AssertionError"]
    /\ UNCHANGED <<tt, stack, ret, top, cas, sr, circ, cls>>

AsyNext ==
    \/ BCReturn
    \/ BCAssertionError

CASNextAnyOrder ==
    \/ CASSelect
    \/ CASBigCircle
    \/ CASSingleAnyOrder
    \/ CASAggregate

\* A run of contribution_all_singularity alone.
Init ==
    CASInit /\ tt = TTIdle /\ stack = <<>> /\ ret = NoCall /\ top = NoCall
    /\ asy = AsyIdle /\ sr = SRIdle /\ circ = CircIdle /\ cls = ClsIdle

Spec == Init /\ [][CASNext]_vars

\* A run whose per-singularity analyses are scheduled in any order, for an
\* equation without apparent singularities and a disk that is either chosen
\* by the code or holds every singularity.
InitAnyOrder ==
    /\ Init
    /\ cas.apparent = {}
    /\ cas.rad \in {RadNone, MaxOf(UserRads)}

SpecAnyOrder == InitAnyOrder /\ [][CASNextAnyOrder]_vars

\* A call of bound_coeff_mono alone.
InitMono ==
    BCMInit /\ tt = TTIdle /\ cas = CASIdle /\ asy = AsyIdle /\ sr = SRIdle /\ circ = CircIdle /\ cls = ClsIdle

SpecMono == InitMono /\ [][BCMNext]_vars

\* A call of truncate_tail alone.
InitTruncate ==
    TTInit /\ stack = <<>> /\ ret = NoCall /\ top = NoCall /\ cas = CASIdle
    /\ asy = AsyIdle /\ sr = SRIdle /\ circ = CircIdle /\ cls = ClsIdle

SpecTruncate == InitTruncate /\ [][TTNext]_vars

\* A call of bound_coefficients alone, on what contribution_all_singularity
\* may return.
InitExpand ==
    AsyInit /\ tt = TTIdle /\ stack = <<>> /\ ret = NoCall /\ top = NoCall
    /\ cas = CASIdle /\ sr = SRIdle /\ circ = CircIdle /\ cls = ClsIdle

SpecExpand == InitExpand /\ [][AsyNext]_vars

\* The re-truncation of one per-singularity bound alone.
InitRetruncate ==
    SRInit /\ tt = TTIdle /\ stack = <<>> /\ ret = NoCall /\ top = NoCall
    /\ cas = CASIdle /\ asy = AsyIdle /\ circ = CircIdle /\ cls = ClsIdle

SpecRetruncate == InitRetruncate /\ [][CASRetruncate]_vars

\* A call of numerical_sol_big_circle alone.
InitCircle ==
    CircInit /\ tt = TTIdle /\ stack = <<>> /\ ret = NoCall /\ top = NoCall
    /\ cas = CASIdle /\ asy = AsyIdle /\ sr = SRIdle /\ cls = ClsIdle

SpecCircle == InitCircle /\ [][BCSample]_vars

\* A call of process_modZ_class alone.
InitClass ==
    /\ ClsInit /\ stack = <<>> /\ ret = NoCall /\ top = NoCall
    /\ tt = TTIdle /\ cas = CASIdle /\ asy = AsyIdle /\ sr = SRIdle
    /\ circ = CircIdle

SpecClass == InitClass /\ [][PMCNext]_vars

\* C3: terminating-expansion exactness.  Every call of bound_coeff_mono with
\* alpha a non-positive integer, l = 0 and min_n > -alpha returns exactly the
\* zero polynomial, whatever deg and s are.
C3_TerminatingExact ==
    (/\ ret.pc # "none"
     /\ ret.alpha2 % 2 = 0 /\ ret.alpha2 <= 0 /\ ret.l = 0
     /\ 2 * ret.min_n > -ret.alpha2)
    => ret.pc = "Zero"

\* A call with alpha = 0, l = 0 that returned the zero polynomial, reached
\* through the recursion, and so with a min_n smaller than the caller's.
C3_Witness ==
    /\ ret.pc = "Zero"
    /\ ret.alpha2 = 0 /\ ret.l = 0
    /\ ret.min_n < top.min_n
    /\ ret.deg = 3 /\ ret.s = 5

\* C4: with alpha a non-positive integer and l = 0, bound_coeff_mono raises
\* ValueError("min_n too small!") exactly when min_n <= -alpha, and then
\* returns no bound; otherwise it returns one.
C4_TooSmallExactly ==
    (/\ ret.pc # "none"
     /\ ret.alpha2 % 2 = 0 /\ ret.alpha2 <= 0 /\ ret.l = 0)
    => /\ ret.pc \in {"ValueError", "Zero"}
       /\ ret.pc = "ValueError" <=> 2 * ret.min_n <= -ret.alpha2

\* The boundary case min_n = -alpha raises, and the outermost call ends with
\* the same error.
C4_Witness ==
    /\ ret.pc = "ValueError"
    /\ ret.l = 0 /\ ret.alpha2 < 0
    /\ 2 * ret.min_n = -ret.alpha2
    /\ top.pc = "ValueError" /\ stack = <<>>

\* The number of nested recursive calls under the outermost call.
Nesting == Len(stack) - 1

\* Every chain of recursive calls is at most |alpha| + l calls deep, counted
\* from the alpha and l of the outermost call (alpha a non-positive integer).
BCMDepthBound ==
    (stack # <<>> /\ top.alpha2 % 2 = 0 /\ top.alpha2 <= 0 /\ top.l > 0)
    => 2 * Nesting <= -top.alpha2 + 2 * top.l

\* C5: bounded recursion of bound_coeff_mono.  Each recursive call has an
\* |alpha| smaller by 1 or an l smaller by 1 than its caller, and no chain
\* of recursive calls is deeper than |alpha| + l of the outermost call.
C5_DecreasingMeasure ==
    /\ \A i \in 2..Len(stack) :
          \/ Abs(stack[i].alpha2) = Abs(stack[i - 1].alpha2) - 2
          \/ stack[i].l = stack[i - 1].l - 1
    /\ BCMDepthBound


\* C11: order monotonicity of the threshold.  With the operator, the
\* initial terms, the radius and min_n fixed, the N0 returned with
\* total_order = k + 1 is never smaller than the N0 returned with
\* total_order = k.
C11_OrderMonotone ==
    [][(cas.pc = "done" /\ cas'.pc = "done"
            /\ cas'.total_order = cas.total_order + 1)
       => cas'.N0 >= cas.N0]_vars

\* A second call, with a larger order, has returned: two dominant
\* singularities, and an N0 that the order has raised above N1.
C11_Witness ==
    /\ cas.pc = "done" /\ cas.calls > 1
    /\ Len(cas.dominant_sing) > 1
    /\ cas.N0 > cas.N1 /\ cas.N1 > 0

\* The summands of term_data, in the order of the loops of lines 1046-1059.
RECURSIVE Summands(_)
Summands(term_data) ==
    IF term_data = <<>> THEN <<>>
    ELSE Head(term_data).expr \o Summands(Tail(term_data))

\* C12: every error term of the expansion returned by bound_coefficients
\* carries the threshold max(n0, N0), no smaller one; a summand becomes an
\* error term (a B-term whose coefficient is its magnitude bound) exactly
\* when its ball coefficient contains zero.
C12_ErrorTermThreshold ==
    asy.pc = "done" =>
        LET summands == Summands(asy.term_data) IN
        /\ Len(asy.terms) = Len(summands)
        /\ \A k \in DOMAIN asy.terms :
              LET c == summands[k].coefficient
                  t == asy.terms[k]
              IN  /\ t.kind = "B" <=> (c.mid - c.rad <= 0 /\ 0 <= c.mid + c.rad)
                  /\ t.kind = "B" =>
                        /\ t.valid_from >= asy.n0 /\ t.valid_from >= asy.n0bis
                        /\ t.valid_from \in {asy.n0, asy.n0bis}
                        /\ t.coefficient = Abs(c.mid) + c.rad
                  /\ t.kind = "exact" => t.ball = c
                  /\ t.growth = summands[k].growth

\* An expansion with an error term whose threshold is the N0 of
\* contribution_all_singularity, above the caller's n0, made from a ball that
\* contains zero off its centre, next to a term with an inexact coefficient.
C12_Witness ==
    /\ asy.pc = "done"
    /\ asy.n0bis > asy.n0
    /\ \E k \in DOMAIN asy.terms :
          /\ asy.terms[k].kind = "B" /\ asy.terms[k].valid_from = asy.n0bis
          /\ Summands(asy.term_data)[k].coefficient.mid # 0
    /\ \E k \in DOMAIN asy.terms :
          asy.terms[k].kind = "exact" /\ asy.terms[k].ball.rad > 0

\* C13, as stated: the big-circle term is added to the entry of rho_0, the
\* dominant singularity of smallest modulus, whenever rho_0 has an entry
\* (after the loop it always has one), and the number of entries does not
\* change; every other entry is unchanged.
C13_MergedIntoRho0 ==
    cas.pc = "done" =>
        /\ Len(cas.bound) = Len(cas.dominant_sing)
        /\ \A i \in DOMAIN cas.bound :
              /\ cas.bound[i].rho = cas.dominant_sing[i]
              /\ cas.bound[i].big_circle = IF i = 1 THEN 1 ELSE 0

\* C13, amended: the term is added to the first entry whose point is
\* |rho_0| itself when the bound has one, and the number of entries does not
\* change; otherwise a new entry for the point |rho_0| is appended, although
\* rho_0 has an entry.  Exactly one term is added, the other entries are
\* unchanged.
C13_MergedIntoModulus ==
    cas.pc = "done" =>
        LET ds == cas.dominant_sing
            mag0 == Abs(ds[1])
            at == {i \in DOMAIN ds : ds[i] = mag0}
        IN  /\ \A i \in DOMAIN ds : cas.bound[i].rho = ds[i]
            /\ IF at # {}
               THEN /\ Len(cas.bound) = Len(ds)
                    /\ \A i \in DOMAIN ds :
                          cas.bound[i].big_circle
                              = IF \A j \in at : i <= j THEN
                                    (IF i \in at THEN 1 ELSE 0)
                                ELSE 0
               ELSE /\ Len(cas.bound) = Len(ds) + 1
                    /\ cas.bound[Len(ds) + 1] = [rho |-> mag0, big_circle |-> 1]
                    /\ \A i \in DOMAIN ds : cas.bound[i].big_circle = 0

\* Two dominant singularities -r and r, listed in this order: the term is
\* in the entry of r, not in that of rho_0 = -r.
C13_Witness ==
    /\ cas.pc = "done"
    /\ Len(cas.dominant_sing) = 2
    /\ cas.dominant_sing[1] < 0
    /\ Len(cas.bound) = 2
    /\ cas.bound[2].big_circle = 1 /\ cas.bound[1].big_circle = 0

\* The local basis with which rho was analysed.
CritOf(rho) ==
    cas.crits[CHOOSE i \in DOMAIN cas.list_data : cas.list_data[i].rho = rho]

\* The records of the analyses run one after the other, in the order of
\* dominant_sing.
InOrderRecords ==
    [i \in DOMAIN cas.dominant_sing |->
        ContributionSingle(cas.dominant_sing[i], CritOf(cas.dominant_sing[i]),
                           cas.total_order, cas.min_n)]

EvalPoints ==
    {p \in (tt.min_n..MaxEvalN) \X LogVals \X OtherVals :
        tt.kappa # KappaNone =>
            /\ p[2] >= tt.logmin
            /\ (p[1] = tt.min_n => p[2] = tt.logmin)}

\* C2: truncation soundness of truncate_tail.  For every n >= min_n the
\* ball g(1/n) of the returned polynomial contains the ball f(1/n) (with
\* kappa given: at logn = log(n), for n >= min_n >= e).
C2_TruncationSound ==
    tt.pc = "done" =>
        \A p \in EvalPoints :
            Encloses(tt.g, tt.f, p[1], p[2], p[3], tt.min_n, tt.logmin)

\* A call with kappa given that has replaced an inexact monomial of degree
\* above deg and of smaller degree in logn than kappa, and a point n > min_n.
C2_Witness ==
    /\ tt.pc = "done"
    /\ tt.kappa = 1
    /\ \E mon \in Support(tt.f) :
          mon.w > tt.deg /\ mon.logn < tt.kappa /\ tt.f[mon].mid # 0
    /\ tt.g # tt.f
    /\ \E p \in EvalPoints : p[1] > tt.min_n

\* The singular points of the equation: the potential singularities of the
\* function, the points where it is known to be analytic, the apparent ones.
EquationSingularities == SeqToSet(cas.singularities) \cup cas.apparent

\* C6: apparent singularity.  When every local solution at a dominant
\* singularity rho is analytic, contribution_single_singularity stops and
\* returns nothing for rho, and contribution_all_singularity still completes:
\* it does not end with an error.
C6_ApparentSkipped ==
    cas.none_returned => cas.pc # "raised"

\* With rad = None, the radius is strictly between the modulus of the
\* dominant singularities and that of every other potential singularity.
RadiusBelowPotential ==
    (cas.rad = RadNone /\ cas.dominant_sing # <<>>)
    => /\ cas.rad10 > Mod10(cas.dominant_sing[1])
       /\ \A i \in DOMAIN cas.sings :
             Abs(cas.sings[i]) > Abs(cas.dominant_sing[1])
                 => cas.rad10 < Mod10(cas.sings[i])

\* C7: the radius chosen with rad = None is strictly greater than the
\* modulus of the farthest dominant singularity and strictly smaller than
\* the modulus of every exceptional point of the equation (apparent
\* singularities included) that lies farther than the dominant ones.
C7_RadiusBetween ==
    (cas.rad = RadNone /\ cas.dominant_sing # <<>>)
    => LET dom == Mod10(cas.dominant_sing[Len(cas.dominant_sing)]) IN
       /\ cas.rad10 > dom
       /\ \A ex \in EquationSingularities \cup {0} :
             Mod10(ex) > dom => cas.rad10 < Mod10(ex)

\* C8: whenever no potential singularity has modulus <= the radius in use
\* (the filtered list may be empty), the run fails with
\* ValueError("No singularity in given disk") and in no other way.
C8_NoSingularityError ==
    (/\ cas.pc # "start"
     /\ \/ Potential = <<>>
        \/ /\ cas.rad # RadNone
           /\ \A i \in DOMAIN Potential : Mod10(Potential[i]) > cas.rad)
    => /\ cas.pc = "raised"
       /\ cas.err = "ValueError: No singularity in given disk"

\* C9: whenever numerical_sol_big_circle is invoked no singularity of the
\* equation has its modulus equal to the radius, and a radius given by the
\* caller that equals the modulus of a singularity makes the run raise
\* ValueError("A singularity is on the given radius") before any sampling.
C9_CircleOffSingularities ==
    /\ cas.sampled
       => \A x \in EquationSingularities : Mod10(x) # cas.rad10
    /\ (/\ cas.pc # "start" /\ cas.rad # RadNone
        /\ \E x \in EquationSingularities : Mod10(x) = cas.rad)
       => /\ cas.pc = "raised" /\ ~cas.sampled
          /\ cas.err = "ValueError: A singularity is on the given radius"

\* How far beyond N0 the disks are compared.
MaxAhead == 3

\* The pairs of positions of distinct dominant singularities.
DominantPairs ==
    {c \in (DOMAIN cas.dominant_sing) \X (DOMAIN cas.dominant_sing) :
        cas.dominant_sing[c[1]] # cas.dominant_sing[c[2]]}

\* abs(s0 - s1) for a pair of positions of dominant singularities.
Dist(c) == Abs(cas.dominant_sing[c[1]] - cas.dominant_sing[c[2]])

\* Twice M + total_order + 1, M the largest |leftmost exponent| of a class.
Threshold2 ==
    LET vals == UNION {{Abs(cas.list_data[i].list_val_rho[j]) :
                           j \in DOMAIN cas.list_data[i].list_val_rho} :
                       i \in DOMAIN cas.list_data}
    IN  MaxOf(vals) + 2 * cas.total_order + 2

\* k >= 2.1*(M + total_order + 1) and k >= 2*|rho_last|/d for the distance d
\* of every two distinct dominant singularities.
AtLeastBothTerms(k) ==
    /\ 20 * k >= 21 * Threshold2
    /\ \A c \in DominantPairs :
          k * Dist(c) >= 2 * Abs(cas.dominant_sing[Len(cas.dominant_sing)])

\* C10: the returned N0 is max(ceil(2.1*(M + total_order + 1)), N1) with
\* N1 = ceil(2*|rho_last|/d), d the least distance between two distinct
\* dominant singularities (N1 = 0 for a single one): N0 is the least integer
\* that is at least both quotients.  For n > N0 the disks B(rho, |rho|/n)
\* around distinct dominant singularities are pairwise disjoint.
C10_ValidityThreshold ==
    cas.pc = "done" =>
        /\ AtLeastBothTerms(cas.N0) /\ ~AtLeastBothTerms(cas.N0 - 1)
        /\ \A n \in (cas.N0 + 1)..(cas.N0 + MaxAhead) :
              \A c \in DominantPairs :
                  n * Dist(c)
                      > Abs(cas.dominant_sing[c[1]]) + Abs(cas.dominant_sing[c[2]])

\* A completed run whose N0 is N1, above the other term of the maximum, with
\* two dominant singularities whose disks meet for some n between the two.
C10_Witness ==
    /\ cas.pc = "done"
    /\ \E n \in 1..cas.N0 :
          /\ 20 * (n - 1) >= 21 * Threshold2
          /\ \E c \in DominantPairs :
                n * Dist(c)
                    <= Abs(cas.dominant_sing[c[1]]) + Abs(cas.dominant_sing[c[2]])

\* The monomials of f that share their other variables with no other
\* monomial of f: no other term of f is added to what they become in g.
Alone == {x \in Support(tt.f) :
             \A y \in Support(tt.f) \ {x} : y.other # x.other}

\* The monomial of w-degree deg (and of logn-degree kappa, when given) that
\* stands for x in g.
Truncation(x) ==
    IF tt.kappa = KappaNone THEN [x EXCEPT !.w = tt.deg]
    ELSE [x EXCEPT !.w = tt.deg, !.logn = tt.kappa]

\* The zero-centred ball of radius |c| / min_n^(d - deg), times
\* log(min_n)^(deg_logn - kappa) when kappa is given.
TailBall(x) ==
    [mid |-> 0, rad |-> Abs(tt.f[x].mid) + tt.f[x].rad,
     pn |-> x.w - tt.deg,
     pl |-> IF tt.kappa = KappaNone THEN 0 ELSE tt.kappa - x.logn]

\* C15, as stated: the monomials replaced are exactly those of degree in w
\* above deg, with or without kappa: each becomes the monomial of w-degree
\* deg with the zero-centred ball, the others stay monomials of g, and g has
\* degree <= deg in w.
C15_ReplacesAboveOnly ==
    tt.pc = "done" =>
        /\ \A m \in Support(tt.g) : m.w <= tt.deg
        /\ \A x \in Alone :
              IF x.w > tt.deg
              THEN tt.g[Truncation(x)] = TailBall(x)
              ELSE x \in Support(tt.g) /\ tt.g[x].mid = tt.f[x].mid

\* C15, amended: the monomials replaced are those of degree in w above deg
\* when kappa is None, and those of degree at least deg when kappa is given.
C15_ReplacesTail ==
    tt.pc = "done" =>
        /\ \A m \in Support(tt.g) : m.w <= tt.deg
        /\ \A x \in Alone :
              IF x.w > tt.deg \/ (tt.kappa # KappaNone /\ x.w = tt.deg)
              THEN tt.g[Truncation(x)] = TailBall(x)
              ELSE x \in Support(tt.g) /\ tt.g[x].mid = tt.f[x].mid

\* A call with kappa given whose result no longer has a monomial of f of
\* degree exactly deg, with a centre that is not zero: it went to the
\* monomial of logn-degree kappa.
C15_Witness ==
    /\ tt.pc = "done" /\ tt.kappa # KappaNone
    /\ \E x \in Alone :
          /\ x.w = tt.deg /\ x.logn < tt.kappa /\ tt.f[x].mid # 0
          /\ x \notin Support(tt.g)
          /\ tt.g[Truncation(x)] = TailBall(x)
    /\ \E x \in Alone : x.w > tt.deg

\* C16, as stated: a monomial of degree in w at or below deg is a monomial
\* of g, with the zero-centred ball of its magnitude bound as coefficient if
\* its coefficient is not exact, and with its coefficient if it is exact.
C16_KeptWithBound ==
    tt.pc = "done" =>
        \A x \in Alone :
            x.w <= tt.deg =>
                tt.g[x] = IF tt.f[x].rad = 0 THEN tt.f[x]
                          ELSE [tt.f[x] EXCEPT !.mid = 0,
                                    !.rad = Abs(tt.f[x].mid) + tt.f[x].rad]

\* C16, amended: a monomial of degree in w below deg, or equal to deg when
\* kappa is None, is a monomial of g with its coefficient copied unchanged,
\* exact or not.
C16_KeptUnchanged ==
    tt.pc = "done" =>
        \A x \in Alone :
            (x.w < tt.deg \/ (tt.kappa = KappaNone /\ x.w = tt.deg))
                => tt.g[x] = tt.f[x]

\* A result that keeps an inexact coefficient with a centre that is not
\* zero on a monomial of degree below deg.
C16_Witness ==
    /\ tt.pc = "done"
    /\ \E x \in Alone :
          /\ x.w < tt.deg
          /\ tt.f[x].rad > 0 /\ tt.f[x].mid # 0
          /\ tt.g[x] = tt.f[x]

\* Re(leftmost + shift), doubled, of the local solutions of the basis crit
\* that are not analytic.
NonanalyticVals2(crit) ==
    {crit[k].leftmost2 + 2 * crit[k].shift :
        k \in {j \in DOMAIN crit :
                  ~(/\ crit[j].leftmost2 % 2 = 0
                    /\ crit[j].leftmost2 + 2 * crit[j].shift >= 0
                    /\ crit[j].logs = 0)}}

\* C18: for each dominant singularity, min_val_rho is the minimum of
\* Re(leftmost + shift) over the non-analytic local solutions, in whatever
\* order the basis lists them, and max_kappa the maximum kappa of the
\* classes; the final exponent is the minimum of the min_val_rho and the
\* final kappa the maximum of the max_kappa.
C18_MinimalExponent ==
    cas.pc = "done" =>
        /\ \A i \in DOMAIN cas.list_data :
              LET vals == NonanalyticVals2(cas.crits[i])
                  r == cas.list_data[i]
              IN  /\ r.min_val_rho2 \in vals
                  /\ \A v \in vals : r.min_val_rho2 <= v
                  /\ \A k \in DOMAIN cas.crits[i] :
                        r.max_kappa >= cas.crits[i][k].logs
                  /\ \E k \in DOMAIN cas.crits[i] :
                        r.max_kappa = cas.crits[i][k].logs
        /\ \A i \in DOMAIN cas.list_data :
              /\ cas.final_val2 <= cas.list_data[i].min_val_rho2
              /\ cas.final_kappa >= cas.list_data[i].max_kappa
        /\ \E i \in DOMAIN cas.list_data :
              cas.final_val2 = cas.list_data[i].min_val_rho2
        /\ \E i \in DOMAIN cas.list_data :
              cas.final_kappa = cas.list_data[i].max_kappa

\* C17: common re-truncation.  With gamma = -final_val - 1 and kappa =
\* final_kappa, every term n^(e)*log(n)^j of a per-singularity bound, e =
\* -val - 1 - d for the monomial w^d, with e <= gamma - total_order becomes
\* an error term (zero-centred ball) of growth exactly
\* n^(gamma - total_order)*log(n)^kappa, every term with e > gamma -
\* total_order is unchanged, and the big-circle term has that same growth.
C17_CommonGrowth ==
    sr.pc = "done" =>
        LET cut2 == -sr.final_val2 - 2 - 2 * sr.total_order IN
        /\ DOMAIN sr.g = Support(sr.poly_bound)
        /\ \A mon \in DOMAIN sr.g :
              LET e2 == -sr.val2 - 2 - 2 * mon.w
                  t == sr.g[mon]
              IN  IF e2 <= cut2
                  THEN /\ t.exp2 = cut2 /\ t.logpow = sr.final_kappa
                       /\ t.coefficient.mid = 0
                  ELSE /\ t.exp2 = e2 /\ t.logpow = mon.logn
                       /\ t.coefficient = sr.poly_bound[mon]
        /\ sr.big_circle.exp2 = cut2
        /\ sr.big_circle.logpow = sr.final_kappa
        /\ sr.big_circle.coefficient.mid = 0

\* In a completed run the error term of every class bound, of degree order
\* in w, has its exponent at or below the cut gamma - total_order, so that
\* the re-truncation gives it the common growth.
ErrorTermsBelowCut ==
    cas.pc = "done" =>
        \A i \in DOMAIN cas.list_data :
            \A j \in DOMAIN cas.list_data[i].list_val_rho :
                LET lm2 == cas.list_data[i].list_val_rho[j]
                    order == ClassOrder(2 * cas.total_order
                                            + cas.list_data[i].min_val_rho2, lm2)
                IN  -lm2 - 2 - 2 * order
                        <= -cas.final_val2 - 2 - 2 * cas.total_order

\* A bound with a term exactly at the cut, turned into an error term, and a
\* term above it with an inexact coefficient, left as it is.
C17_Witness ==
    /\ sr.pc = "done"
    /\ \E mon \in DOMAIN sr.g :
          /\ -sr.val2 - 2 - 2 * mon.w = sr.big_circle.exp2
          /\ sr.poly_bound[mon].mid # 0 /\ sr.g[mon].coefficient.mid = 0
          /\ mon.logn < sr.final_kappa
    /\ \E mon \in DOMAIN sr.g :
          /\ sr.g[mon].exp2 > sr.big_circle.exp2
          /\ sr.g[mon].coefficient.rad > 0

\* The arc [a, a + 1] of the circle lies in a sampled arc.
Covered(a) ==
    \E i \in DOMAIN circ.arcs :
        \E t \in -2..2 :
            /\ circ.arcs[i].lo <= a + t * Turn
            /\ a + 1 + t * Turn <= circ.arcs[i].hi

\* Consecutive centres of every sampled arc are less than 2*halfside apart.
CloseCentres ==
    \A i \in DOMAIN circ.arcs :
        (circ.arcs[i].hi - circ.arcs[i].lo) * circ.unit_len
            < 2 * circ.halfside * circ.arcs[i].np

\* The arguments of the singularities are closed under conjugation.
ConjugateClosed ==
    \A i \in DOMAIN circ.sings :
        \E j \in DOMAIN circ.sings :
            (circ.sings[i] + circ.sings[j]) % Turn = 0

\* With singularities closed under conjugation the circle is covered.
CoveredWhenConjugateClosed ==
    (circ.pc = "done" /\ ConjugateClosed)
    => (CloseCentres /\ \A a \in 0..(Turn - 1) : Covered(a))

\* C19: contour coverage.  For every non-empty list of dominant
\* singularities the arcs sampled by numerical_sol_big_circle (from the
\* midpoint to the end of each arc between consecutive singularities, and
\* their conjugates) cover every argument of the circle, with consecutive
\* centres less than 2*halfside apart.
C19_CircleCovered ==
    circ.pc = "done"
    => (CloseCentres /\ \A a \in 0..(Turn - 1) : Covered(a))

\* A call at the entry of the generic branch of bound_coeff_mono.
EntersGeneric(fr) == fr.pc = "enter" /\ ~IsNonPosInteger(fr.alpha2)

\* s > 2 and min_n >= s*|alpha| for the call fr
GammaPrecondition(fr) == fr.s > 2 /\ 2 * fr.min_n >= fr.s * Abs(fr.alpha2)

\* Under process_modZ_class no call has min_n <= -alpha in the terminating
\* branch.
NeverTooSmall ==
    cls.pc # "idle" =>
        \A i \in DOMAIN stack :
            ~(stack[i].pc = "enter" /\ IsNonPosInteger(stack[i].alpha2)
              /\ stack[i].l = 0
              /\ MinNTooSmall(stack[i].alpha2, stack[i].min_n))

\* The precondition holds for every call of the generic branch, but when
\* abs(leftmost) + abs(order) = 1.
PreconditionUnlessDivisorOne ==
    (cls.pc # "idle" /\ ClassDivisor2(cls.abs_order2, cls.leftmost2) # 2) =>
        \A i \in DOMAIN stack :
            EntersGeneric(stack[i]) => GammaPrecondition(stack[i])

\* C20: precondition n >= s*|alpha|, s > 2.  process_modZ_class raises
\* unless s > 2, and when it does not raise every call of the generic
\* branch of bound_coeff_mono, made for an explicit term or by the
\* recursion, has s > 2 and min_n >= s*|alpha|.
C20_GammaPrecondition ==
    /\ cls.pc = "raised" =>
           ~(/\ ClassDivisor2(cls.abs_order2, cls.leftmost2) # 0
             /\ ClassScale(cls.abs_order2, cls.leftmost2, cls.min_n) > 2)
    /\ cls.pc \in {"terms", "term", "done"} => cls.s > 2
    /\ cls.pc # "idle" =>
           \A i \in DOMAIN stack :
               EntersGeneric(stack[i]) => GammaPrecondition(stack[i])

\* A finished top-level call of the recursive reduction with min_n >= 3.
RecursiveCallEnded ==
    /\ stack = <<>> /\ top.pc \notin {"none", "enter"}
    /\ IsNonPosInteger(top.alpha2) /\ top.l > 0 /\ top.min_n >= 3

\* min_n <= -alpha and l <= -alpha for the top-level call
LeafTooSmall ==
    2 * top.min_n <= -top.alpha2 /\ 2 * top.l <= -top.alpha2

\* min_n + alpha is the same at every recursive call.
SameMinNPlusAlpha ==
    \A i \in DOMAIN stack :
        2 * stack[i].min_n + stack[i].alpha2 = 2 * top.min_n + top.alpha2

\* Leaving aside the calls that end by a division by zero, the outcome is
\* as C21 states.
OutcomeUnlessDivisionByZero ==
    (RecursiveCallEnded /\ top.pc # "ZeroDivisionError") =>
        /\ top.pc = "ValueError" <=> LeafTooSmall
        /\ top.pc # "ValueError" => top.pc \in {"Poly", "Zero"}

\* C21: in the recursive reduction of bound_coeff_mono (alpha a non-positive
\* integer, l > 0, min_n >= 3) min_n + alpha is the same at every recursive
\* call, the call raises ValueError exactly when min_n <= -alpha and
\* l <= -alpha, and in every other case it returns a polynomial.
C21_RecursionOutcome ==
    /\ SameMinNPlusAlpha
    /\ RecursiveCallEnded =>
           /\ top.pc = "ValueError" <=> LeafTooSmall
           /\ top.pc # "ValueError" => top.pc \in {"Poly", "Zero"}

\* With the radius derived automatically the assertion holds on the bound
\* list returned by contribution_all_singularity.
AssertionHoldsAutomaticRadius ==
    (cas.pc = "done" /\ cas.rad = RadNone) =>
        \A i \in DOMAIN cas.bound :
            DirOnUnitCircle(Rho0(cas.bound), cas.bound[i].rho)

\* C22: the assertion abs(dir) == 1 of to_asymptotic_expansion never fails
\* on the term data returned by contribution_all_singularity, whether the
\* radius is derived automatically or supplied: every entry of the bound
\* list, the big-circle entry included, has a rho of the modulus of the
\* first.
C22_AssertionNeverFails ==
    cas.pc = "done" =>
        \A i \in DOMAIN cas.bound :
            DirOnUnitCircle(Rho0(cas.bound), cas.bound[i].rho)

\* abs_order of the analysis of the i-th dominant singularity, doubled.
AbsOrder2(i) == 2 * cas.total_order + cas.list_data[i].min_val_rho2

\* C23: for every exponent class processed by process_modZ_class the
\* truncation order ceil(abs_order - Re(leftmost)) is >= 0 and
\* |leftmost| + |order| > 0, so that ser[:order] holds exactly the first
\* order terms and the computation of s does not divide by zero.
C23_OrderAndDivisor ==
    /\ cas.err # "ZeroDivisionError"
    /\ \A i \in DOMAIN cas.crits :
           \A lm \in SeqToSet(Classes(cas.crits[i])) :
               /\ ClassOrder(AbsOrder2(i), lm) >= 0
               /\ ClassDivisor2(AbsOrder2(i), lm) > 0

\* The potential singularities of the call: the caller's singularities that
\* are not in known_analytic.
PotentialSet == SeqToSet(cas.singularities) \ cas.known_analytic

\* The radius that selects the dominant singularities, in tenths: the
\* least modulus with rad = None, else rad.
SelectionRadius ==
    IF cas.rad = RadNone THEN MinOf({Mod10(x) : x \in PotentialSet})
    ELSE cas.rad

\* dominant_sing has been computed.
Selected == cas.pc \in {"selected", "loop", "done"}

DominantSelected ==
    Selected =>
        /\ SeqToSet(cas.dominant_sing)
               = {x \in PotentialSet : Mod10(x) <= SelectionRadius}
        /\ Len(cas.dominant_sing) = Cardinality(SeqToSet(cas.dominant_sing))
        /\ \A i, j \in DOMAIN cas.dominant_sing :
               i < j => Mod10(cas.dominant_sing[i]) <= Mod10(cas.dominant_sing[j])
        /\ \A x \in PotentialSet \ SeqToSet(cas.dominant_sing) :
               /\ Mod10(x) > SelectionRadius
               /\ \A i \in DOMAIN cas.dominant_sing :
                      Mod10(x) > Mod10(cas.dominant_sing[i])

ArgumentsKept ==
    /\ cas'.singularities = cas.singularities
    /\ cas'.known_analytic = cas.known_analytic

\* C24: dominant_sing is exactly the list of the potential singularities
\* not in known_analytic of modulus <= the radius in use (with rad = None:
\* of the least modulus), by non-decreasing modulus; every potential
\* singularity left out has a strictly greater modulus; the caller's lists
\* singularities and known_analytic are not modified.
C24_DominantSelection == [](DominantSelected) /\ [][ArgumentsKept]_vars

\* A finished call that selected two singularities and left one out, from a
\* list that was not sorted by modulus.
C24_Witness ==
    /\ cas.pc = "done"
    /\ Len(cas.dominant_sing) >= 2
    /\ Len(cas.sings) > Len(cas.dominant_sing)
    /\ cas.sings # cas.singularities

====
